---- MODULE Spec2Model ----
(***************************************************************************)
(* Model of the RFID reader/writer driver in src/rfid_app_3.py: the codec  *)
(* helpers, the frame exchange _execute_waitresult and the command facade  *)
(* (get_info, beep, set_led, read_token_raw, read_token, write_token_raw,  *)
(* write_token), over a serial transport with a host receive buffer and    *)
(* bytes that are still on the wire.                                       *)
(*                                                                         *)
(* The serial port carries python strings, as the comparisons of the code  *)
(* take it to.  A python string is a sequence of character codes 0..255.   *)
(* A python int is a pair <<hi, lo>> of value hi * 2^24 + lo with          *)
(* 0 <= lo < 2^24, since a 5-byte token does not fit the integers of the   *)
(* model checker.                                                          *)
(***************************************************************************)
EXTENDS Integers, Sequences, FiniteSets, TLC

\* ------------------------------------------------------------------ bounds
\* number of facade calls made on one device handle in a behaviour
MaxCalls == 1

\* --------------------------------------------------------------- constants
LED_NONE == <<0>>
LED_RED == <<1>>
LED_GREEN == <<2>>
ERR_NONE == <<0>>

\* bauds=38400 is not modelled; timeout=10 is the default of _execute_waitresult
DefaultTimeout == 10
\* read(1000): the cap of the drain read
DrainCap == 1000
\* the largest data length the assertion of _execute_waitresult accepts
MaxData == 252
\* "\xAA\xDD\x00"
Preamble == <<170, 221, 0>>

Min(a, b) == IF a < b THEN a ELSE b

\* s[lo:hi] of python, for 0 <= lo and 0 <= hi
Slice(s, lo, hi) == IF lo < Min(hi, Len(s)) THEN SubSeq(s, lo + 1, Min(hi, Len(s))) ELSE <<>>

\* s[lo:] of python
SliceFrom(s, lo) == Slice(s, lo, Len(s))

\* a ^ b on non-negative integers
RECURSIVE Xor(_, _)
Xor(a, b) ==
  IF a = 0 THEN b
  ELSE IF b = 0 THEN a
  ELSE ((a + b) % 2) + 2 * Xor(a \div 2, b \div 2)

\* a ^ b for two bytes, as a table
XorTable == [a \in 0..255 |-> [b \in 0..255 |-> Xor(a, b)]]

\* ord(s[lo-1]) ^ ... ^ ord(s[hi-1]), the characters lo..hi of s counted
\* from 1; ^ is associative, and the characters are taken in halves so
\* that the depth of the evaluation stays small for a string of 255
RECURSIVE XorRange(_, _, _)
XorRange(s, lo, hi) ==
  IF lo > hi THEN 0
  ELSE IF lo = hi THEN s[lo]
  ELSE XorTable[XorRange(s, lo, (lo + hi) \div 2)][XorRange(s, ((lo + hi) \div 2) + 1, hi)]

\* reduce(lambda r,c: r^ord(c), s, r)
XorFold(s, r) == XorTable[r][XorRange(s, 1, Len(s))]

\* chr(reduce(lambda r,c:r^ord(c), s, 0)): a one-character string
_checksum(s) == <<XorFold(s, 0)>>

\* ------------------------------------------------------ python ints (limbs)
\* (r << 8) | c for 0 <= c < 256
ShlOr(r, c) == <<r[1] * 256 + (r[2] \div 65536), (r[2] % 65536) * 256 + c>>

\* n & 0xFF
AndFF(n) == n[2] % 256

\* n >> 8
Shr8(n) == <<n[1] \div 256, (n[1] % 256) * 65536 + (n[2] \div 256)>>

\* reduce(lambda r,c:(r<<8)|ord(c), s, r)
RECURSIVE StrToNumFold(_, _)
StrToNumFold(s, r) == IF s = <<>> THEN r ELSE StrToNumFold(Tail(s), ShlOr(r, Head(s)))

_strtonum(s) == StrToNumFold(s, <<0, 0>>)

\* the loop of _numtostr: i more bytes to prepend to d
RECURSIVE NumToStrLoop(_, _, _)
NumToStrLoop(n, i, d) == IF i = 0 THEN d ELSE NumToStrLoop(Shr8(n), i - 1, <<AndFF(n)>> \o d)

\* _numtostr with d = d + chr(n & 0xFF): the low byte comes first
_numtostr_LowByteFirst(n, l) ==
  [i \in 1..l |-> NumToStrLoop(n, l, <<>>)[l + 1 - i]]

_numtostr(n, l) == NumToStrLoop(n, l, <<>>)

\* the default l=5 of _numtostr
TokenWidth == 5

\* ----------------------------------------------------------- python values
None == [t |-> "none", v |-> <<>>]
PyStr(s) == [t |-> "str", v |-> s]
PyInt(n) == [t |-> "int", v |-> n]

\* outcome of a facade call
Return(val) == [kind |-> "return", exc |-> "", msg |-> "", code |-> 0, value |-> val]
Raise(e) == [kind |-> "raise", exc |-> e.exc, msg |-> e.msg, code |-> e.code, value |-> None]
NoRet == [kind |-> "none", exc |-> "", msg |-> "", code |-> 0, value |-> None]

\* outcome of _execute_waitresult
XReturn(status, data) ==
  [kind |-> "return", exc |-> "", msg |-> "", code |-> 0, status |-> status, data |-> data]
XRaise(exc, msg, code) ==
  [kind |-> "raise", exc |-> exc, msg |-> msg, code |-> code, status |-> <<>>, data |-> <<>>]
NoRes == [kind |-> "none", exc |-> "", msg |-> "", code |-> 0, status |-> <<>>, data |-> <<>>]

\* ------------------------------------------------------- _execute_waitresult
\* assert(len(opcode) == 2 and len(data) <= 252)
\* an assertion that lets one byte too many through
AssertOk_OneMore(opcode, data) == Len(opcode) = 2 /\ Len(data) <= MaxData + 1

AssertOk(opcode, data) == Len(opcode) = 2 /\ Len(data) <= MaxData

\* a frame whose checksum also covers the length byte
BuildCmd_LengthCovered(opcode, data) ==
  LET opcode_data == opcode \o data
  IN  Preamble \o <<Len(opcode_data) + 1>> \o opcode_data
        \o _checksum(<<Len(opcode_data) + 1>> \o opcode_data)

\* cmd = "\xAA\xDD\x00" + chr(len(opcode_data)+1) + opcode_data + self._checksum(opcode_data)
BuildCmd(opcode, data) ==
  LET opcode_data == opcode \o data
  IN  Preamble \o <<Len(opcode_data) + 1>> \o opcode_data \o _checksum(opcode_data)

\* a length check that ignores the length byte
BadLength_OnlyShort(res) == Len(res) < 4

\* if len(result) < 4 or ord(result[3]) != len(result)-4
BadLength(res) == Len(res) < 4 \/ res[4] # Len(res) - 4

\* a format check that ignores the echoed opcode
BadFormat_NoOpcode(res, opcode) == Slice(res, 0, 3) # Preamble

\* if result[0:3] != "\xAA\xDD\x00" or result[4:6] != opcode
BadFormat(res, opcode) == Slice(res, 0, 3) # Preamble \/ Slice(res, 4, 6) # opcode

\* a checksum check that starts at the length byte
BadChecksum_FromLength(res) == _checksum(SliceFrom(res, 3)) # <<0>>

\* if self._checksum(result[4:]) != "\x00"
BadChecksum(res) == _checksum(SliceFrom(res, 4)) # <<0>>

\* a status check that takes the expected status "\x00" for "no check"
BadStatus_ZeroIsUnset(status, check_result) ==
  check_result # <<>> /\ check_result # <<0>> /\ status # check_result

\* if check_result and status != check_result
BadStatus(status, check_result) == check_result # <<>> /\ status # check_result

\* a parse that tests the checksum before the preamble and the opcode
ParseResult_ChecksumFirst(res, opcode, check_result) ==
  IF BadLength(res) THEN XRaise("IOError", "answer bad length", 0)
  ELSE IF BadChecksum(res) THEN XRaise("IOError", "answer bad checksum", 0)
  ELSE IF BadFormat(res, opcode) THEN XRaise("IOError", "answer bad format", 0)
  ELSE IF Len(res) < 7 THEN XRaise("IndexError", "string index out of range", 0)
  ELSE LET status == <<res[7]>>
       IN  IF BadStatus(status, check_result)
           THEN XRaise("IOError", "rfid command error", res[7])
           ELSE XReturn(status, Slice(res, 7, Len(res) - 1))

\* the parse of the collected answer, lines 96-110
ParseResult(res, opcode, check_result) ==
  IF BadLength(res) THEN XRaise("IOError", "answer bad length", 0)
  ELSE IF BadFormat(res, opcode) THEN XRaise("IOError", "answer bad format", 0)
  ELSE IF BadChecksum(res) THEN XRaise("IOError", "answer bad checksum", 0)
  ELSE IF Len(res) < 7 THEN XRaise("IndexError", "string index out of range", 0)
  ELSE LET status == <<res[7]>>
       IN  IF BadStatus(status, check_result)
           THEN XRaise("IOError", "rfid command error", res[7])
           ELSE XReturn(status, Slice(res, 7, Len(res) - 1))

\* ------------------------------------------------------------------ device
Tok1 == <<0, 18, 52, 86, 120>>
Tok2 == <<0, 0, 0, 0, 1>>
Tokens == {Tok1, Tok2}

\* AA DD 00 ll o1 o2 sc d1 d2 d3 d4 cs
RespFrame(o, sc, d) ==
  LET body == o \o <<sc>> \o d
  IN  Preamble \o <<Len(body) + 1>> \o body \o _checksum(body)

\* the last byte of f changed
Corrupt(f) == SubSeq(f, 1, Len(f) - 1) \o <<Xor(f[Len(f)], 1)>>

\* an opcode that is not o
OtherOpcode(o) == IF o = <<1, 2>> THEN <<1, 3>> ELSE <<1, 2>>

\* "ID", a short stand-in for the text the reader answers get_info with
InfoText == <<73, 68>>

\* the well-formed answers to a request with opcode o
GoodReplies(o) ==
  IF o = <<1, 12>>
  THEN {RespFrame(o, 0, Tok1), RespFrame(o, 0, Tok2), RespFrame(o, 1, <<>>),
        RespFrame(o, 2, <<>>)}
  ELSE IF o = <<1, 2>>
  THEN {RespFrame(o, 0, InfoText), RespFrame(o, 2, <<>>)}
  ELSE {RespFrame(o, 0, <<>>), RespFrame(o, 2, <<>>)}

\* the success answer to a request with opcode o
Ack(o) ==
  IF o = <<1, 12>> THEN RespFrame(o, 0, Tok1)
  ELSE IF o = <<1, 2>> THEN RespFrame(o, 0, InfoText)
  ELSE RespFrame(o, 0, <<>>)

\* what the device may put on the wire in answer to the request frame cmd:
\* a well-formed answer, or one with a wrong checksum, a checksum that covers
\* the length byte, a wrong opcode, a wrong opcode and checksum, a wrong
\* preamble, a byte too many, two bytes only, or no status byte
DeviceReplies(cmd) ==
  LET o == Slice(cmd, 4, 6)
      lenbody == <<4>> \o o \o <<0>>
  IN  GoodReplies(o) \cup
      { Corrupt(Ack(o)),
        Preamble \o lenbody \o _checksum(lenbody),
        RespFrame(OtherOpcode(o), 0, <<>>),
        Corrupt(RespFrame(OtherOpcode(o), 0, <<>>)),
        <<170, 221, 1>> \o SliceFrom(Ack(o), 3),
        Ack(o) \o <<0>>,
        <<170, 221>>,
        Preamble \o <<Len(o) + 1>> \o o \o _checksum(o) }

\* where an answer of n bytes may be cut in two
SplitPoints(n) == {n - 1} \cap (1..(n - 1))

\* the chunks an answer f may travel in
Chunkings(f) == {<<f>>} \cup {<<Slice(f, 0, k), SliceFrom(f, k)>> : k \in SplitPoints(Len(f))}

\* ------------------------------------------------------------------- state
VARIABLES
  op,        \* the facade method called last ("idle" before the first call)
  args,      \* its arguments
  stage,     \* the position inside that method
  xpc,       \* the position inside _execute_waitresult ("none": no call runs)
  x,         \* the parameters of the running _execute_waitresult
  result,    \* the local variable result of _execute_waitresult
  exres,     \* what the last _execute_waitresult returned or raised
  timeout,   \* self.timeout, the read timeout of the serial port
  rxbuf,     \* bytes received by the host and not yet read
  inflight,  \* chunks the device has sent that have not reached the host
  pending,   \* request frames the device has not answered yet
  written,   \* the frames the running facade call has written
  xlog,      \* the outcomes of the exchanges of the running facade call
  readbacks, \* what read_token_raw returned to the running write_token_raw
  ret,       \* what the last facade call returned or raised
  calls      \* number of facade calls made so far

vars == <<op, args, stage, xpc, x, result, exres, timeout, rxbuf, inflight,
          pending, written, xlog, readbacks, ret, calls>>

NoArgs == [data |-> <<>>, lock |-> FALSE, num |-> <<0, 0>>, duration |-> 0, code |-> <<>>]
NoX == [opcode |-> <<>>, data |-> <<>>, timeout |-> 0, check_result |-> <<>>]

\* serial.Serial.__init__(self,dev_path,bauds,8,serial.PARITY_NONE,timeout=0)
Init ==
  /\ op = "idle"
  /\ args = NoArgs
  /\ stage = "none"
  /\ xpc = "none"
  /\ x = NoX
  /\ result = <<>>
  /\ exres = NoRes
  /\ timeout = 0
  /\ rxbuf = <<>>
  /\ inflight = <<>>
  /\ pending = <<>>
  /\ written = <<>>
  /\ xlog = <<>>
  /\ readbacks = <<>>
  /\ ret = NoRet
  /\ calls = 0

transport == <<timeout, rxbuf, inflight, pending>>

\* the entry of _execute_waitresult(opcode, data, timeout, check_result)
Enter(opcode, data, tmo, check_result) ==
  /\ x' = [opcode |-> opcode, data |-> data, timeout |-> tmo, check_result |-> check_result]
  /\ xpc' = "send"
  /\ result' = <<>>
  /\ exres' = NoRes

\* a facade method is entered: op, its arguments, and its first exchange
Call(name, a, st, opcode, data, tmo, check_result) ==
  /\ xpc = "none"
  /\ calls < MaxCalls
  /\ calls' = calls + 1
  /\ op' = name
  /\ args' = a
  /\ stage' = st
  /\ written' = <<>>
  /\ xlog' = <<>>
  /\ readbacks' = <<>>
  /\ ret' = NoRet
  /\ Enter(opcode, data, tmo, check_result)
  /\ UNCHANGED transport

\* the facade method returns or raises r
Finish(r) ==
  /\ stage' = "none"
  /\ xpc' = "none"
  /\ ret' = r
  /\ UNCHANGED <<op, x, result, exres>>

\* the facade method goes on with its next exchange
Continue(st, opcode, data, check_result) ==
  /\ stage' = st
  /\ Enter(opcode, data, DefaultTimeout, check_result)
  /\ UNCHANGED <<op, ret>>

\* the assertion, the build of cmd and self.write(cmd)
\* a send that does not wait for the answer: the frame is written and the
\* exchange is over, status 00 and no data taken for granted
Send_NoWait ==
  /\ xpc = "send"
  /\ IF AssertOk(x.opcode, x.data)
     THEN /\ written' = Append(written, BuildCmd(x.opcode, x.data))
          /\ pending' = Append(pending, BuildCmd(x.opcode, x.data))
          /\ exres' = XReturn(ERR_NONE, <<>>)
          /\ xlog' = Append(xlog, exres')
          /\ xpc' = "done"
     ELSE /\ exres' = XRaise("AssertionError", "", 0)
          /\ xlog' = Append(xlog, exres')
          /\ xpc' = "done"
          /\ UNCHANGED <<written, pending>>
  /\ UNCHANGED <<op, args, stage, x, result, timeout, rxbuf, inflight, readbacks, ret, calls>>

Send ==
  /\ xpc = "send"
  /\ IF AssertOk(x.opcode, x.data)
     THEN /\ written' = Append(written, BuildCmd(x.opcode, x.data))
          /\ pending' = Append(pending, BuildCmd(x.opcode, x.data))
          /\ xpc' = "settimeout"
          /\ UNCHANGED <<exres, xlog>>
     ELSE /\ exres' = XRaise("AssertionError", "", 0)
          /\ xlog' = Append(xlog, exres')
          /\ xpc' = "done"
          /\ UNCHANGED <<written, pending>>
  /\ UNCHANGED <<op, args, stage, x, result, timeout, rxbuf, inflight, readbacks, ret, calls>>

\* self.timeout=timeout
SetTimeout ==
  /\ xpc = "settimeout"
  /\ timeout' = x.timeout
  /\ xpc' = "read"
  /\ UNCHANGED <<op, args, stage, x, result, exres, rxbuf, inflight, pending,
                 written, xlog, readbacks, ret, calls>>

\* the first read without line 91: an empty first read goes on to the drain
FirstRead_NoTimeout ==
  /\ xpc = "read"
  /\ result' = Slice(rxbuf, 0, 1)
  /\ rxbuf' = SliceFrom(rxbuf, 1)
  /\ timeout' = 0
  /\ xpc' = "drain"
  /\ UNCHANGED <<exres, xlog>>
  /\ UNCHANGED <<op, args, stage, x, inflight, pending, written, readbacks, ret, calls>>

\* the first read without line 89: the read timeout stays as it was set
FirstRead_KeepTimeout ==
  /\ xpc = "read"
  /\ result' = Slice(rxbuf, 0, 1)
  /\ rxbuf' = SliceFrom(rxbuf, 1)
  /\ timeout' = timeout
  /\ IF result' = <<>>
     THEN /\ exres' = XRaise("IOError", "operation timed out", 0)
          /\ xlog' = Append(xlog, exres')
          /\ xpc' = "done"
     ELSE /\ xpc' = "drain"
          /\ UNCHANGED <<exres, xlog>>
  /\ UNCHANGED <<op, args, stage, x, inflight, pending, written, readbacks, ret, calls>>

\* result = self.read(); self.timeout=0; if result == "": raise IOError
FirstRead ==
  /\ xpc = "read"
  /\ result' = Slice(rxbuf, 0, 1)
  /\ rxbuf' = SliceFrom(rxbuf, 1)
  /\ timeout' = 0
  /\ IF result' = <<>>
     THEN /\ exres' = XRaise("IOError", "operation timed out", 0)
          /\ xlog' = Append(xlog, exres')
          /\ xpc' = "done"
     ELSE /\ xpc' = "drain"
          /\ UNCHANGED <<exres, xlog>>
  /\ UNCHANGED <<op, args, stage, x, inflight, pending, written, readbacks, ret, calls>>

\* result += self.read(1000), then the parse of the answer
Drain ==
  /\ xpc = "drain"
  /\ result' = result \o Slice(rxbuf, 0, DrainCap)
  /\ rxbuf' = SliceFrom(rxbuf, DrainCap)
  /\ exres' = ParseResult(result', x.opcode, x.check_result)
  /\ xlog' = Append(xlog, exres')
  /\ xpc' = "done"
  /\ UNCHANGED <<op, args, stage, x, timeout, inflight, pending, written, readbacks, ret, calls>>

\* The host looks at its receive buffer only in the two reads of an exchange,
\* so what the device and the wire do at any other time is modelled as
\* happening just before the next read.
Listening == xpc \in {"read", "drain"}

\* the device answers the oldest request it has not answered; the answer
\* travels as one chunk or as two
DeviceReply ==
  /\ Listening
  /\ pending # <<>>
  /\ \E f \in DeviceReplies(Head(pending)) :
       \E c \in Chunkings(f) : inflight' = inflight \o c
  /\ pending' = Tail(pending)
  /\ UNCHANGED <<op, args, stage, xpc, x, result, exres, timeout, rxbuf,
                 written, xlog, readbacks, ret, calls>>

\* the next chunk on the wire reaches the receive buffer of the host
Arrive ==
  /\ Listening
  /\ inflight # <<>>
  /\ rxbuf' = rxbuf \o Head(inflight)
  /\ inflight' = Tail(inflight)
  /\ UNCHANGED <<op, args, stage, xpc, x, result, exres, timeout, pending,
                 written, xlog, readbacks, ret, calls>>

\* ------------------------------------------------------------------ facade
\* what the callers of the model pass in
Durations == {10, 255}
LedCodes == {LED_NONE, LED_RED, LED_GREEN}
\* 305419896 and 2^40 + 1
Nums == {<<18, 3430008>>, <<65536, 1>>}
\* the direct calls of _execute_waitresult: opcode, data, timeout, check_result
DirectCalls ==
  { <<<<1, 2>>, <<>>, 3, <<>>>>,
    <<<<1, 1>>, <<>>, DefaultTimeout, ERR_NONE>>,
    <<<<1>>, <<>>, DefaultTimeout, <<>>>>,
    <<<<1, 2>>, [i \in 1..MaxData |-> 0], DefaultTimeout, ERR_NONE>>,
    <<<<1, 2>>, [i \in 1..(MaxData + 1) |-> 0], 3, <<>>>> }

\* the part of the state a facade step leaves alone
kept == <<args, written, xlog, calls, transport>>

\* read_token_raw without the final raise: every other status is "no card"
ReadTokenRawResult_NoRaise(e) ==
  IF e.kind = "raise" THEN Raise(e)
  ELSE IF e.status = ERR_NONE THEN Return(PyStr(e.data))
  ELSE Return(None)

\* the body of read_token_raw after its exchange came back with e
ReadTokenRawResult(e) ==
  IF e.kind = "raise" THEN Raise(e)
  ELSE IF e.status = ERR_NONE THEN Return(PyStr(e.data))
  ELSE IF e.status = <<1>> THEN Return(None)
  ELSE Raise(XRaise("IOError", "rfid command error", e.status[1]))

\* the body of read_token after its exchange came back with e
ReadTokenResult(e) ==
  LET d == ReadTokenRawResult(e)
  IN  IF d.kind = "raise" THEN d
      ELSE IF d.value # None THEN Return(PyInt(_strtonum(d.value.v)))
      ELSE Return(None)

\* a comparison that takes any card content for the written token
ReadBackMatches_AnyCard(rb, data) == rb.t = "str"

\* self.read_token_raw() == data
ReadBackMatches(rb, data) == rb = PyStr(data)

\* lock = "\x01" if lock else "\x00"
LockByte(lock) == IF lock THEN <<1>> ELSE <<0>>

get_info ==
  Call("get_info", NoArgs, "exchange", <<1, 2>>, <<>>, DefaultTimeout, ERR_NONE)

get_info_done ==
  /\ op = "get_info" /\ xpc = "done"
  /\ Finish(IF exres.kind = "raise" THEN Raise(exres) ELSE Return(PyStr(exres.data)))
  /\ UNCHANGED <<kept, readbacks>>

beep ==
  \E duration \in Durations :
    Call("beep", [NoArgs EXCEPT !.duration = duration], "exchange",
         <<1, 3>>, <<duration>>, DefaultTimeout, ERR_NONE)

beep_done ==
  /\ op = "beep" /\ xpc = "done"
  /\ Finish(IF exres.kind = "raise" THEN Raise(exres) ELSE Return(None))
  /\ UNCHANGED <<kept, readbacks>>

set_led ==
  \E code \in LedCodes :
    Call("set_led", [NoArgs EXCEPT !.code = code], "exchange",
         <<1, 4>>, code, DefaultTimeout, ERR_NONE)

set_led_done ==
  /\ op = "set_led" /\ xpc = "done"
  /\ Finish(IF exres.kind = "raise" THEN Raise(exres) ELSE Return(None))
  /\ UNCHANGED <<kept, readbacks>>

read_token_raw ==
  Call("read_token_raw", NoArgs, "exchange", <<1, 12>>, <<>>, DefaultTimeout, <<>>)

read_token_raw_done ==
  /\ op = "read_token_raw" /\ xpc = "done"
  /\ Finish(ReadTokenRawResult(exres))
  /\ UNCHANGED <<kept, readbacks>>

read_token ==
  Call("read_token", NoArgs, "exchange", <<1, 12>>, <<>>, DefaultTimeout, <<>>)

read_token_done ==
  /\ op = "read_token" /\ xpc = "done"
  /\ Finish(ReadTokenResult(exres))
  /\ UNCHANGED <<kept, readbacks>>

\* _execute_waitresult called by a user of the class
execute_waitresult ==
  \E c \in DirectCalls :
    Call("_execute_waitresult", NoArgs, "exchange", c[1], c[2], c[3], c[4])

execute_waitresult_done ==
  /\ op = "_execute_waitresult" /\ xpc = "done"
  /\ Finish(IF exres.kind = "raise" THEN Raise(exres)
            ELSE Return([t |-> "tuple", v |-> <<exres.status, exres.data>>]))
  /\ UNCHANGED <<kept, readbacks>>

write_token_raw ==
  \E data \in Tokens, lock \in BOOLEAN :
    Call("write_token_raw", [NoArgs EXCEPT !.data = data, !.lock = lock], "Attempt1",
         <<2, 12>>, LockByte(lock) \o data, DefaultTimeout, ERR_NONE)

\* write_token(num) is write_token_raw(_numtostr(num)) with lock=False
\* write_token that widens the string for a number of more than 40 bits
\* instead of dropping the high bits
write_token_Widened ==
  \E num \in Nums :
    LET l == IF num[1] >= 65536 THEN TokenWidth + 1 ELSE TokenWidth
    IN  Call("write_token",
             [NoArgs EXCEPT !.num = num, !.data = _numtostr(num, l), !.lock = FALSE],
             "Attempt1", <<2, 12>>, LockByte(FALSE) \o _numtostr(num, l),
             DefaultTimeout, ERR_NONE)

write_token ==
  \E num \in Nums :
    Call("write_token",
         [NoArgs EXCEPT !.num = num, !.data = _numtostr(num, TokenWidth), !.lock = FALSE],
         "Attempt1", <<2, 12>>, LockByte(FALSE) \o _numtostr(num, TokenWidth),
         DefaultTimeout, ERR_NONE)

InWrite == op \in {"write_token_raw", "write_token"}

\* line 134 with a retry: a failed first write goes on to the second write
write_attempt1_done_Retry ==
  /\ InWrite /\ stage = "Attempt1" /\ xpc = "done"
  /\ IF exres.kind = "raise"
     THEN Continue("Attempt2", <<3, 12>>, LockByte(args.lock) \o args.data, ERR_NONE)
     ELSE Continue("Verify1", <<1, 12>>, <<>>, <<>>)
  /\ UNCHANGED <<kept, readbacks>>

\* line 134 came back: go on to the read_token_raw of line 135
write_attempt1_done ==
  /\ InWrite /\ stage = "Attempt1" /\ xpc = "done"
  /\ IF exres.kind = "raise"
     THEN Finish(Raise(exres))
     ELSE Continue("Verify1", <<1, 12>>, <<>>, <<>>)
  /\ UNCHANGED <<kept, readbacks>>

\* line 135 followed by a second write with the first opcode again
write_verify1_done_SameOpcode ==
  /\ InWrite /\ stage = "Verify1" /\ xpc = "done"
  /\ LET rb == ReadTokenRawResult(exres)
     IN  IF rb.kind = "raise"
         THEN Finish(rb) /\ UNCHANGED readbacks
         ELSE /\ readbacks' = Append(readbacks, rb.value)
              /\ IF ReadBackMatches(rb.value, args.data)
                 THEN Finish(Return(None))
                 ELSE Continue("Attempt2", <<2, 12>>, LockByte(args.lock) \o args.data, ERR_NONE)
  /\ UNCHANGED kept

\* line 135: compare the read-back; return, or go on to line 137
write_verify1_done ==
  /\ InWrite /\ stage = "Verify1" /\ xpc = "done"
  /\ LET rb == ReadTokenRawResult(exres)
     IN  IF rb.kind = "raise"
         THEN Finish(rb) /\ UNCHANGED readbacks
         ELSE /\ readbacks' = Append(readbacks, rb.value)
              /\ IF ReadBackMatches(rb.value, args.data)
                 THEN Finish(Return(None))
                 ELSE Continue("Attempt2", <<3, 12>>, LockByte(args.lock) \o args.data, ERR_NONE)
  /\ UNCHANGED kept

\* line 137 came back: go on to the read_token_raw of line 138
write_attempt2_done ==
  /\ InWrite /\ stage = "Attempt2" /\ xpc = "done"
  /\ IF exres.kind = "raise"
     THEN Finish(Raise(exres))
     ELSE Continue("Verify2", <<1, 12>>, <<>>, <<>>)
  /\ UNCHANGED <<kept, readbacks>>

\* line 138 without line 140: the second mismatch returns normally
write_verify2_done_NoRaise ==
  /\ InWrite /\ stage = "Verify2" /\ xpc = "done"
  /\ LET rb == ReadTokenRawResult(exres)
     IN  IF rb.kind = "raise"
         THEN Finish(rb) /\ UNCHANGED readbacks
         ELSE /\ readbacks' = Append(readbacks, rb.value)
              /\ Finish(Return(None))
  /\ UNCHANGED kept

\* a second verification that writes with the second opcode again, for as
\* long as the read-back differs
write_verify2_done_Again ==
  /\ InWrite /\ stage = "Verify2" /\ xpc = "done"
  /\ LET rb == ReadTokenRawResult(exres)
     IN  IF rb.kind = "raise"
         THEN Finish(rb) /\ UNCHANGED readbacks
         ELSE /\ readbacks' = Append(readbacks, rb.value)
              /\ IF ReadBackMatches(rb.value, args.data)
                 THEN Finish(Return(None))
                 ELSE Continue("Attempt2", <<3, 12>>, LockByte(args.lock) \o args.data, ERR_NONE)
  /\ UNCHANGED kept

\* line 138: compare the read-back; return, or raise IOError("rfid write failed")
write_verify2_done ==
  /\ InWrite /\ stage = "Verify2" /\ xpc = "done"
  /\ LET rb == ReadTokenRawResult(exres)
     IN  IF rb.kind = "raise"
         THEN Finish(rb) /\ UNCHANGED readbacks
         ELSE /\ readbacks' = Append(readbacks, rb.value)
              /\ IF ReadBackMatches(rb.value, args.data)
                 THEN Finish(Return(None))
                 ELSE Finish(Raise(XRaise("IOError", "rfid write failed", 0)))
  /\ UNCHANGED kept

Next ==
  \/ get_info \/ get_info_done
  \/ beep \/ beep_done
  \/ set_led \/ set_led_done
  \/ read_token_raw \/ read_token_raw_done
  \/ read_token \/ read_token_done
  \/ execute_waitresult \/ execute_waitresult_done
  \/ write_token_raw \/ write_token
  \/ write_attempt1_done \/ write_verify1_done
  \/ write_attempt2_done \/ write_verify2_done
  \/ Send \/ SetTimeout \/ FirstRead \/ Drain
  \/ DeviceReply \/ Arrive

Spec == Init /\ [][Next]_vars

\* ---------------------------------------------------------------------
\* The two static conversions applied on their own: _numtostr to a number,
\* then _strtonum to the string it gave.  The numbers are <<hi, lo>> limbs
\* of 24 bits; every one of them is below 2^40.
CodecHi == {0, 1, 255, 256, 4660, 65535}
CodecLo == {0, 1, 255, 256, 65535, 65536, 3430008, 16777215}
CodecNums == {<<h, l>> : h \in CodecHi, l \in CodecLo}

CodecInit ==
  /\ op = "idle"
  /\ args \in {[NoArgs EXCEPT !.num = n] : n \in CodecNums}
  /\ stage = "none"
  /\ xpc = "none"
  /\ x = NoX
  /\ result = <<>>
  /\ exres = NoRes
  /\ timeout = 0
  /\ rxbuf = <<>>
  /\ inflight = <<>>
  /\ pending = <<>>
  /\ written = <<>>
  /\ xlog = <<>>
  /\ readbacks = <<>>
  /\ ret = NoRet
  /\ calls = 0

\* d = rfid._numtostr(n)
numtostr_apply ==
  /\ op = "idle"
  /\ op' = "_numtostr"
  /\ args' = [args EXCEPT !.data = _numtostr(args.num, TokenWidth)]
  /\ ret' = Return(PyStr(args'.data))
  /\ UNCHANGED <<stage, xpc, x, result, exres, transport, written, xlog, readbacks, calls>>

\* rfid._strtonum(d)
strtonum_apply ==
  /\ op = "_numtostr"
  /\ op' = "_strtonum"
  /\ ret' = Return(PyInt(_strtonum(args.data)))
  /\ UNCHANGED <<args, stage, xpc, x, result, exres, transport, written, xlog, readbacks, calls>>

CodecNext == numtostr_apply \/ strtonum_apply

CodecSpec == CodecInit /\ [][CodecNext]_vars

\* the steps the program takes by itself once a method has been called:
\* the statements of _execute_waitresult and the continuations of the
\* facade methods.  A read of the port returns within its timeout, so none
\* of them waits on the device.
ProgramStep ==
  \/ Send \/ SetTimeout \/ FirstRead \/ Drain
  \/ get_info_done \/ beep_done \/ set_led_done
  \/ read_token_raw_done \/ read_token_done \/ execute_waitresult_done
  \/ write_attempt1_done \/ write_verify1_done
  \/ write_attempt2_done \/ write_verify2_done

\* the program keeps running: a call that can take its next step takes it
LiveSpec == Init /\ [][Next]_vars /\ WF_vars(ProgramStep)

TypeOK ==
  /\ op \in {"idle", "get_info", "beep", "set_led", "read_token_raw", "read_token",
             "_execute_waitresult", "write_token_raw", "write_token"}
  /\ xpc \in {"none", "send", "settimeout", "read", "drain", "done"}
  /\ stage \in {"none", "exchange", "Attempt1", "Verify1", "Attempt2", "Verify2"}
  /\ timeout \in {0, 3, DefaultTimeout}
  /\ calls \in 0..MaxCalls

\* ------------------------------------------------------------------ claims
\* the last facade call was write_token_raw (directly or through write_token)
WriteCalled == op \in {"write_token_raw", "write_token"}

\* the last facade call has returned or raised
Finished == op # "idle" /\ xpc = "none"

\* opcode and data bytes of a frame on the wire
OpcodeOf(f) == Slice(f, 4, 6)
PayloadOf(f) == Slice(f, 6, Len(f) - 1)

\* the error kinds of the specification, by the message the code raises
IsTimeout(e) == e.kind = "raise" /\ e.exc = "IOError" /\ e.msg = "operation timed out"
IsMalformedResponse(e) ==
  e.kind = "raise" /\ e.exc = "IOError" /\ e.msg \in {"answer bad length", "answer bad format"}
IsChecksumMismatch(e) == e.kind = "raise" /\ e.exc = "IOError" /\ e.msg = "answer bad checksum"
IsDeviceError(e) == e.kind = "raise" /\ e.exc = "IOError" /\ e.msg = "rfid command error"
IsWriteVerificationFailed(e) ==
  e.kind = "raise" /\ e.exc = "IOError" /\ e.msg = "rfid write failed"

\* C1: whenever write_token_raw returns without raising, the last exchange it
\* made is a READ-TOKEN exchange that returned status 00 and exactly the bytes
\* of raw_token; it never returns after a write exchange alone.
C1_ReturnOnlyAfterMatchingReadBack ==
  (WriteCalled /\ Finished /\ ret.kind = "return") =>
    /\ Len(xlog) \in {2, 4}
    /\ Len(written) = Len(xlog)
    /\ OpcodeOf(written[Len(written)]) = <<1, 12>>
    /\ xlog[Len(xlog)].kind = "return"
    /\ xlog[Len(xlog)].status = <<0>>
    /\ xlog[Len(xlog)].data = args.data
    /\ Len(readbacks) = Len(xlog) \div 2
    /\ readbacks[Len(readbacks)] = [t |-> "str", v |-> args.data]

C1_Witness ==
  /\ WriteCalled /\ Finished /\ ret.kind = "return"
  /\ Len(xlog) = 2
  /\ readbacks = <<[t |-> "str", v |-> args.data]>>

\* C2: when both write exchanges report success and both read-backs come
\* back, a first read-back that differs from raw_token (a "no card" result
\* included) followed by a second that equals it makes write_token_raw return
\* normally, and two differing read-backs make it raise "rfid write failed".
C2_SecondReadBackDecides ==
  (WriteCalled /\ Finished /\ Len(readbacks) = 2) =>
    /\ Len(xlog) = 4
    /\ xlog[1].kind = "return" /\ xlog[1].status = <<0>>
    /\ xlog[3].kind = "return" /\ xlog[3].status = <<0>>
    /\ readbacks[1] # [t |-> "str", v |-> args.data]
    /\ IF readbacks[2] = [t |-> "str", v |-> args.data]
       THEN ret.kind = "return"
       ELSE IsWriteVerificationFailed(ret)

C2_Witness ==
  /\ WriteCalled /\ Finished
  /\ Len(readbacks) = 2
  /\ readbacks[1].t = "none"
  /\ readbacks[2] # [t |-> "str", v |-> args.data]
  /\ IsWriteVerificationFailed(ret)

\* C3: the frames one write_token_raw call writes are a prefix of WRITE-TOKEN
\* (02 0C), READ-TOKEN (01 0C), WRITE-TOKEN-ALT (03 0C), READ-TOKEN (01 0C);
\* both write frames carry lock byte ++ raw_token, the read frames carry
\* nothing; the third frame is written only after a first read-back that
\* differs from raw_token, and a matching first read-back ends the call with
\* two frames written.
C3_FrameSequence ==
  WriteCalled =>
    /\ Len(written) <= 4
    /\ \A i \in 1..Len(written) :
         /\ OpcodeOf(written[i]) = <<<<2, 12>>, <<1, 12>>, <<3, 12>>, <<1, 12>>>>[i]
         /\ PayloadOf(written[i]) =
              IF i \in {1, 3} THEN (IF args.lock THEN <<1>> ELSE <<0>>) \o args.data ELSE <<>>
    /\ Len(written) >= 3 =>
         (readbacks # <<>> /\ readbacks[1] # [t |-> "str", v |-> args.data])
    /\ (readbacks # <<>> /\ readbacks[1] = [t |-> "str", v |-> args.data]) =>
         (Len(written) = 2 /\ Finished /\ ret.kind = "return")

C3_Witness ==
  /\ WriteCalled /\ Finished
  /\ Len(written) = 4
  /\ args.lock
  /\ ret.kind = "return"

\* C4: a failed exchange is the last exchange of its facade call: once an
\* exchange has raised, the call writes no further frame and starts no further
\* exchange, and it ends raising that same error.
C4_FailurePropagates ==
  \A i \in 1..Len(xlog) :
    xlog[i].kind = "raise" =>
      /\ i = Len(xlog)
      /\ Len(written) <= i
      /\ xpc \in {"done", "none"}
      /\ xpc = "none" =>
           (ret.kind = "raise" /\ ret.exc = xlog[i].exc /\ ret.msg = xlog[i].msg
            /\ ret.code = xlog[i].code)

C4_Witness ==
  /\ WriteCalled /\ Finished
  /\ Len(xlog) = 1
  /\ IsDeviceError(xlog[1]) /\ xlog[1].code = 2
  /\ IsDeviceError(ret)
  /\ Len(written) = 1

\* C5: for a READ-TOKEN answer that passed validation, read_token_raw returns
\* none when the status byte is 01, the payload bytes (index 7 up to the byte
\* before the last) when it is 00, and raises "rfid command error" with the
\* status for every other status.
C5_ReadTokenRawByStatus ==
  (op = "read_token_raw" /\ Finished /\ exres.kind = "return") =>
    /\ Len(result) >= 7
    /\ result[7] = 1 => (ret.kind = "return" /\ ret.value.t = "none")
    /\ result[7] = 0 =>
         (ret.kind = "return" /\ ret.value = [t |-> "str", v |-> SubSeq(result, 8, Len(result) - 1)])
    /\ result[7] \notin {0, 1} => (IsDeviceError(ret) /\ ret.code = result[7])

C5_Witness ==
  /\ op = "read_token_raw" /\ Finished /\ exres.kind = "return"
  /\ result[7] = 2
  /\ IsDeviceError(ret)

\* an exchange has come back and its outcome is still in exres
ExchangeOver == xpc \in {"done", "none"} /\ exres.kind # "none"

\* the frame the running exchange has written
LastWritten == written[Len(written)]

\* C6 as stated: every frame written starts with AA DD 00, has the length byte
\* len(opcode)+len(payload)+1, and its checksum makes the XOR of the bytes
\* from the length byte through the checksum byte zero; GET-INFO is written as
\* AA DD 00 03 01 02 00.
C6_Original ==
  \A i \in 1..Len(written) :
    LET f == written[i]
    IN  /\ SubSeq(f, 1, 3) = <<170, 221, 0>>
        /\ f[4] = Len(f) - 4
        /\ XorFold(SubSeq(f, 4, Len(f)), 0) = 0
        /\ OpcodeOf(f) = <<1, 2>> /\ Len(f) = 7 => f = <<170, 221, 0, 3, 1, 2, 0>>

\* C6 (amended): every frame written starts with AA DD 00, has the length
\* byte len(opcode)+len(payload)+1, and ends with the XOR of the opcode and
\* payload bytes, so that the XOR of the bytes after the length byte through
\* the checksum byte is zero (the length byte is not covered); GET-INFO is
\* written as AA DD 00 03 01 02 03.
C6_FrameInvariant ==
  /\ \A i \in 1..Len(written) :
       LET f == written[i]
       IN  /\ Len(f) >= 7
           /\ SubSeq(f, 1, 3) = <<170, 221, 0>>
           /\ f[4] = Len(f) - 4
           /\ XorFold(SubSeq(f, 5, Len(f)), 0) = 0
           /\ OpcodeOf(f) = <<1, 2>> /\ Len(f) = 7 => f = <<170, 221, 0, 3, 1, 2, 3>>
  /\ xpc \in {"settimeout", "read", "drain"} =>
       /\ LastWritten[4] = Len(x.opcode) + Len(x.data) + 1
       /\ OpcodeOf(LastWritten) = x.opcode
       /\ PayloadOf(LastWritten) = x.data

C6_Witness ==
  /\ op = "get_info"
  /\ written = <<<<170, 221, 0, 3, 1, 2, 3>>>>

\* the answer passed the length, preamble and opcode checks of the exchange
WellShaped(res, opcode) ==
  /\ Len(res) >= 4
  /\ res[4] = Len(res) - 4
  /\ Slice(res, 0, 3) = <<170, 221, 0>>
  /\ Slice(res, 4, 6) = opcode

\* the exchange got past its checksum validation
PastChecksum(e) == e.kind = "return" \/ IsDeviceError(e) \/ (e.kind = "raise" /\ e.exc = "IndexError")

\* C7 as stated: an answer gets past checksum validation only if the XOR of
\* its bytes from index 3 (the length byte) through the last is zero, and a
\* well-shaped answer whose XOR over index 3..end is not zero fails with
\* "answer bad checksum".
C7_Original ==
  (ExchangeOver /\ result # <<>>) =>
    /\ PastChecksum(exres) => XorFold(SliceFrom(result, 3), 0) = 0
    /\ (WellShaped(result, x.opcode) /\ XorFold(SliceFrom(result, 3), 0) # 0) =>
         IsChecksumMismatch(exres)

\* C7 (amended): an answer gets past checksum validation only if the XOR of
\* its bytes from index 4 (the first opcode byte) through the last is zero,
\* and a well-shaped answer whose XOR over index 4..end is not zero fails
\* with "answer bad checksum".
C7_ChecksumFromOpcode ==
  (ExchangeOver /\ result # <<>>) =>
    /\ PastChecksum(exres) => XorFold(SliceFrom(result, 4), 0) = 0
    /\ (WellShaped(result, x.opcode) /\ XorFold(SliceFrom(result, 4), 0) # 0) =>
         IsChecksumMismatch(exres)

C7_Witness ==
  /\ ExchangeOver
  /\ WellShaped(result, x.opcode)
  /\ XorFold(SliceFrom(result, 3), 0) = 0
  /\ XorFold(SliceFrom(result, 4), 0) # 0
  /\ IsChecksumMismatch(exres)

\* C8: an exchange that received bytes raises "answer bad length" whenever it
\* received fewer than 4 bytes or the byte at index 3 is not the number of
\* bytes received minus 4; it returns no status and payload for such an answer.
C8_BadLengthRejected ==
  (ExchangeOver /\ result # <<>> /\ (Len(result) < 4 \/ result[4] # Len(result) - 4)) =>
    /\ IsMalformedResponse(exres)
    /\ exres.msg = "answer bad length"
    /\ exres.status = <<>> /\ exres.data = <<>>

C8_Witness ==
  /\ ExchangeOver
  /\ Len(result) >= 4
  /\ result[4] # Len(result) - 4
  /\ SubSeq(result, 1, 3) = <<170, 221, 0>>
  /\ exres.msg = "answer bad length"

\* C9: an exchange that received bytes raises a malformed-answer error
\* ("answer bad length" or "answer bad format") whenever the first three bytes
\* are not AA DD 00 or the bytes at index 4-5 are not the opcode of the request
\* just sent; a returned status and payload come from an answer that echoes
\* the opcode of the request.
C9_PreambleAndEchoChecked ==
  (ExchangeOver /\ result # <<>>) =>
    /\ (Slice(result, 0, 3) # <<170, 221, 0>> \/ Slice(result, 4, 6) # x.opcode) =>
         IsMalformedResponse(exres)
    /\ exres.kind = "return" =>
         /\ Slice(result, 4, 6) = x.opcode
         /\ Slice(result, 4, 6) = OpcodeOf(LastWritten)

C9_Witness ==
  /\ ExchangeOver
  /\ Len(result) >= 7
  /\ result[4] = Len(result) - 4
  /\ Slice(result, 0, 3) = <<170, 221, 0>>
  /\ Slice(result, 4, 6) # x.opcode
  /\ XorFold(SliceFrom(result, 4), 0) = 0
  /\ exres.msg = "answer bad format"

\* C10: when the blocking first read of an exchange ends with no byte in the
\* receive buffer, the exchange raises "operation timed out": it returns no
\* status and payload, consumes nothing that arrives later, and has written
\* exactly one frame (no re-send); a timed-out exchange holds no answer bytes.
C10_TimeoutStep ==
  (xpc = "read" /\ xpc' # "read" /\ rxbuf = <<>>) =>
    /\ IsTimeout(exres')
    /\ exres'.status = <<>> /\ exres'.data = <<>>
    /\ xpc' = "done"
    /\ result' = <<>>
    /\ written' = written
    /\ Len(written') = Len(xlog')
    /\ rxbuf' = rxbuf /\ inflight' = inflight /\ pending' = pending

C10_TimedOutState ==
  IsTimeout(exres) =>
    /\ result = <<>>
    /\ xpc \in {"done", "none"}
    /\ Len(written) = Len(xlog)
    /\ xpc = "none" => IsTimeout(ret)

C10_Timeout == [][C10_TimeoutStep]_vars /\ []C10_TimedOutState

C10_Witness ==
  /\ Finished
  /\ IsTimeout(exres) /\ IsTimeout(ret)
  /\ WriteCalled /\ Len(written) = 3
  /\ pending # <<>>


\* C11: the read timeout of the port equals the response timeout of the
\* caller only while the exchange is in its blocking first read; it is 0
\* before the frame is written, during the drain read, and whenever an
\* exchange has returned or raised, whatever the exit path.
C11_TimeoutRestored ==
  /\ xpc = "read" => timeout = x.timeout
  /\ xpc # "read" => timeout = 0

C11_Witness ==
  /\ op = "_execute_waitresult" /\ Finished
  /\ x.timeout = 3
  /\ IsChecksumMismatch(ret)
  /\ timeout = 0


\* C12: for every number v of 0 .. 2^40-1, _numtostr(v) is exactly 5
\* bytes, the most significant byte first, and _strtonum of those bytes
\* is v again.
C12_TokenRoundTrip ==
  LET hi == args.num[1]
      lo == args.num[2]
  IN  /\ op \in {"_numtostr", "_strtonum"} =>
           /\ hi < 65536
           /\ Len(args.data) = 5
           /\ args.data = <<hi \div 256, hi % 256,
                            lo \div 65536, (lo \div 256) % 256, lo % 256>>
      /\ op = "_numtostr" => ret = Return(PyStr(args.data))
      /\ op = "_strtonum" => ret = Return(PyInt(args.num))

C12_Witness ==
  /\ op = "_strtonum"
  /\ args.num = <<65535, 16777215>>
  /\ args.data = <<255, 255, 255, 255, 255>>
  /\ ret = Return(PyInt(<<65535, 16777215>>))


\* C13: write_token(value) sends as its first frame the opcode 02 0C with
\* a payload of exactly 6 bytes, the lock byte 00 and then the 5 bytes of
\* value mod 2^40, most significant first; a value of more than 40 bits
\* raises nothing on the way, and the read-back that lets the call return
\* is the truncated 5 bytes.
C13_TruncatedBytes ==
  LET hi == args.num[1] % 65536
      lo == args.num[2]
  IN  <<hi \div 256, hi % 256, lo \div 65536, (lo \div 256) % 256, lo % 256>>

C13_WriteTokenTruncates ==
  op = "write_token" =>
    /\ args.data = C13_TruncatedBytes
    /\ (stage # "Attempt1" \/ xpc # "send") => written # <<>>
    /\ written # <<>> =>
         /\ OpcodeOf(written[1]) = <<2, 12>>
         /\ PayloadOf(written[1]) = <<0>> \o C13_TruncatedBytes
         /\ Len(PayloadOf(written[1])) = 6
    /\ \A i \in 1..Len(xlog) : xlog[i].exc # "AssertionError"
    /\ (Finished /\ ret.kind = "return") =>
         /\ readbacks # <<>>
         /\ readbacks[Len(readbacks)] = PyStr(C13_TruncatedBytes)

C13_Witness ==
  /\ op = "write_token" /\ Finished
  /\ args.num = <<65536, 1>>
  /\ ret.kind = "return"
  /\ PayloadOf(written[1]) = <<0, 0, 0, 0, 0, 1>>


\* the answer of an exchange is well shaped, has a good checksum over
\* index 4..end and holds a byte at index 6
C14_Validated ==
  /\ WellShaped(result, x.opcode)
  /\ XorFold(SliceFrom(result, 4), 0) = 0
  /\ Len(result) >= 7

\* C14: an exchange that was given an expected status returns normally only
\* when the status byte of the answer equals it, and raises "rfid command
\* error" with the status received for every validated answer whose status
\* differs; get_info, beep and set_led give the expected status 00, which is
\* enforced like any other, so they return normally only on status 00.
C14_ExpectedStatusEnforced ==
  /\ (ExchangeOver /\ x.check_result # <<>>) =>
       /\ exres.kind = "return" =>
            (C14_Validated /\ <<result[7]>> = x.check_result
             /\ exres.status = x.check_result)
       /\ (C14_Validated /\ <<result[7]>> # x.check_result) =>
            (IsDeviceError(exres) /\ exres.code = result[7])
  /\ (op \in {"get_info", "beep", "set_led"} /\ xpc # "none") =>
       x.check_result = <<0>>
  /\ (op \in {"get_info", "beep", "set_led"} /\ Finished /\ ret.kind = "return") =>
       (C14_Validated /\ result[7] = 0)
  /\ (op \in {"get_info", "beep", "set_led"} /\ Finished /\ C14_Validated
      /\ result[7] # 0) =>
       (IsDeviceError(ret) /\ ret.code = result[7])

C14_Witness ==
  /\ op = "beep" /\ Finished
  /\ C14_Validated
  /\ result[7] = 2
  /\ IsDeviceError(ret) /\ ret.code = 2

\* C15: the answer is validated in the order length, preamble and opcode,
\* checksum, expected status, and the first test that fails names the
\* error: "rfid command error" is raised only for an answer that passed the
\* three earlier tests, and an answer with both a bad checksum and a wrong
\* opcode fails with "answer bad format".
C15_ValidationOrder ==
  (ExchangeOver /\ result # <<>>) =>
    LET badlen == Len(result) < 4 \/ result[4] # Len(result) - 4
        badfmt == Slice(result, 0, 3) # <<170, 221, 0>> \/ Slice(result, 4, 6) # x.opcode
        badsum == XorFold(SliceFrom(result, 4), 0) # 0
    IN  /\ badlen => (exres.kind = "raise" /\ exres.msg = "answer bad length")
        /\ (~badlen /\ badfmt) => (exres.kind = "raise" /\ exres.msg = "answer bad format")
        /\ (~badlen /\ ~badfmt /\ badsum) => IsChecksumMismatch(exres)
        /\ IsDeviceError(exres) =>
             (~badlen /\ ~badfmt /\ ~badsum /\ x.check_result # <<>>
              /\ <<result[7]>> # x.check_result)
        /\ IsChecksumMismatch(exres) => (~badlen /\ ~badfmt)
        /\ (exres.kind = "raise" /\ exres.msg = "answer bad format") => ~badlen

C15_Witness ==
  /\ ExchangeOver
  /\ Len(result) >= 4 /\ result[4] = Len(result) - 4
  /\ Slice(result, 4, 6) # x.opcode
  /\ XorFold(SliceFrom(result, 4), 0) # 0
  /\ IsMalformedResponse(exres) /\ exres.msg = "answer bad format"


\* C16 (step): an exchange entered with an opcode that is not 2 bytes or
\* with more than 252 payload bytes ends at once with the assertion error,
\* the step writing nothing and leaving the read timeout as it was.
C16_RejectStep ==
  (xpc = "send" /\ (Len(x.opcode) # 2 \/ Len(x.data) > 252)) =>
    /\ xpc' = "done"
    /\ exres'.kind = "raise" /\ exres'.exc = "AssertionError"
    /\ written' = written
    /\ pending' = pending
    /\ timeout' = timeout

\* C16 (state): an exchange that ended with the assertion error has
\* written no frame, and every frame written has its length byte in 3..255
\* and is length byte + 4 bytes long.
C16_FramesInRange ==
  /\ (exres.kind = "raise" /\ exres.exc = "AssertionError") =>
       (written = <<>> /\ timeout = 0
        /\ (Len(x.opcode) # 2 \/ Len(x.data) > 252))
  /\ \A i \in 1..Len(written) :
       /\ written[i][4] \in 3..255
       /\ Len(written[i]) = written[i][4] + 4

\* C16: a bad opcode length or an oversized payload is rejected before
\* anything is written and before the timeout is touched, and every frame
\* written has a length byte in 3..255 and a size of length byte + 4.
C16_RejectedBeforeWrite == [][C16_RejectStep]_vars /\ []C16_FramesInRange

C16_Witness ==
  /\ op = "_execute_waitresult" /\ Finished
  /\ Len(x.opcode) = 2 /\ Len(x.data) = 253
  /\ ret.kind = "raise" /\ ret.exc = "AssertionError"
  /\ written = <<>>
  /\ timeout = 0


\* C17 (step): a frame is written only by the send step of an exchange,
\* when every earlier exchange of the call has its outcome logged; from
\* the write the exchange goes to its blocking first read, from there to
\* the drain read or to "operation timed out", and from the drain read to
\* its end; an outcome is logged only by those steps.
C17_HalfDuplexStep ==
  /\ (written' # written /\ written' # <<>>) =>
       /\ xpc = "send" /\ xpc' = "settimeout"
       /\ Len(xlog) = Len(written)
       /\ written' = Append(written, written'[Len(written')])
       /\ OpcodeOf(written'[Len(written')]) = x.opcode
  /\ xpc = "settimeout" => xpc' \in {"settimeout", "read"}
  /\ xpc = "read" =>
       \/ xpc' \in {"read", "drain"}
       \/ xpc' = "done" /\ IsTimeout(exres') /\ xlog' = Append(xlog, exres')
  /\ xpc = "drain" =>
       \/ xpc' = "drain"
       \/ xpc' = "done" /\ exres'.kind # "none" /\ xlog' = Append(xlog, exres')
  /\ (xpc \in {"settimeout", "read", "drain"} \/ xpc' \in {"settimeout", "read", "drain"}) =>
       (x' = x /\ op' = op /\ stage' = stage)
  /\ xlog' # xlog =>
       (xpc \in {"send", "read", "drain"} \/ xlog' = <<>>)

\* C17 (state): an exchange whose frame is written and whose outcome is
\* not yet known is the only one: the frames written are one more than
\* the outcomes logged while it reads, and as many otherwise.
C17_OneOutstanding ==
  exres.exc # "AssertionError" =>
    Len(written) = Len(xlog) + (IF xpc \in {"settimeout", "read", "drain"} THEN 1 ELSE 0)

\* C17: exchanges are half-duplex and never pipelined: each request frame
\* written is followed by the blocking first read and the drain read of
\* its own exchange (or by its timeout) before the next request frame is
\* written.
C17_HalfDuplex == [][C17_HalfDuplexStep]_vars /\ []C17_OneOutstanding

C17_Witness ==
  /\ WriteCalled
  /\ stage = "Attempt2" /\ xpc = "read"
  /\ Len(written) = 3 /\ Len(xlog) = 2


\* C18: the bytes an exchange collects and validates are bytes the device
\* sent in answer to the frame this exchange wrote, and no others: what
\* it has read is the beginning of an answer to its own request, never
\* bytes left over from an earlier exchange.
C18_OnlyOwnReply ==
  (result # <<>> /\ written # <<>>) =>
    \E f \in DeviceReplies(LastWritten) :
      /\ Len(result) <= Len(f)
      /\ result = Slice(f, 0, Len(result))


\* C19: every answer an exchange accepts, returning its status and
\* payload, has at least 8 bytes, so that the status byte at index 6 is
\* not the checksum byte at the end; a 7-byte answer, which has no status
\* byte, is rejected.
C19_AcceptedHasStatusByte ==
  (ExchangeOver /\ exres.kind = "return") =>
    /\ Len(result) >= 8
    /\ exres.status = <<result[7]>>
    /\ exres.data = SubSeq(result, 8, Len(result) - 1)


\* C20: with every read of the port returning within its timeout, a
\* write_token_raw call that has started comes to its end, returning or
\* raising, and has written at most four frames by then; it neither loops
\* nor waits without end.
C20_WriteTerminates ==
  /\ (WriteCalled /\ xpc # "none") ~> (WriteCalled /\ Finished)
  /\ [](WriteCalled => Len(written) <= 4)

C20_Witness ==
  /\ WriteCalled /\ Finished
  /\ Len(written) = 4 /\ Len(xlog) = 4
  /\ IsWriteVerificationFailed(ret)
  /\ timeout = 0

====
